---- MODULE Spec2Model ----
(***************************************************************************)
(* A model of the tailwind-color-reader extension (src/src/extension.ts). *)
(*                                                                         *)
(* A document is a sequence of one-character strings.  Offsets are        *)
(* 0-based as in the editor API: the character at offset k is t[k + 1].   *)
(* Numbers are exact decimals held as integers in units of 1/Scale; the   *)
(* inputs are chosen so that every value the code computes is exact in     *)
(* these units and no comparison falls on a floating-point rounding edge.  *)
(***************************************************************************)
EXTENDS Integers, Sequences, FiniteSets, TLC

VARIABLES
    text,        \* the active document's text
    mapFile,     \* what src/map.json holds on disk
    colorMap,    \* the module-level colorMap
    loadState,   \* "init" before activate(), then "ok" or "failed"
    errorsShown, \* how often the load failure was reported
    pending,     \* the quick-fix command arguments handed to the host
    last         \* what the last operation did

vars == <<text, mapFile, colorMap, loadState, errorsShown, pending, last>>

----------------------------------------------------------------------------
(* Characters and strings *)

Digit == {"0", "1", "2", "3", "4", "5", "6", "7", "8", "9"}

\* [\d.]
NumCh == Digit \cup {"."}

\* [\d.%]
AlphaCh == NumCh \cup {"%"}

\* \s, as far as the documents of the model hold it
WhiteSpace == {" ", "\t", "\n"}

\* the line terminator the documents of the model use
EOL == "\n"

Min(a, b) == IF a <= b THEN a ELSE b

Max(a, b) == IF a >= b THEN a ELSE b

Abs(x) == IF x < 0 THEN -x ELSE x

\* String.prototype.substring(from, to) on 0-based offsets
Substring(s, from, to) == SubSeq(s, from + 1, to)

\* String.prototype.substring(from)
SubstringFrom(s, from) == SubSeq(s, from + 1, Len(s))

\* whether `word` occurs in s at offset `off`
StartsWithAt(s, off, word) ==
    /\ off + Len(word) <= Len(s)
    /\ \A k \in 1..Len(word) : s[off + k] = word[k]

\* the first offset >= off whose character is not in Class (Len(s) if none)
RECURSIVE SkipClass(_, _, _)
SkipClass(s, off, Class) ==
    IF off < Len(s) /\ s[off + 1] \in Class
    THEN SkipClass(s, off + 1, Class)
    ELSE off

\* String.prototype.indexOf(word, from): the first offset >= from, or -1
RECURSIVE IndexOfFrom(_, _, _)
IndexOfFrom(s, word, from) ==
    IF from + Len(word) > Len(s) THEN -1
    ELSE IF StartsWithAt(s, from, word) THEN from
    ELSE IndexOfFrom(s, word, from + 1)

IndexOf(s, word) == IndexOfFrom(s, word, 0)

EndsWith(s, ch) == Len(s) > 0 /\ s[Len(s)] = ch

\* String.prototype.trim()
Trim(s) ==
    LET first == SkipClass(s, 0, WhiteSpace)
        lastIx == CHOOSE k \in 0..Len(s) :
                    /\ k = 0 \/ s[k] \notin WhiteSpace
                    /\ \A j \in (k + 1)..Len(s) : s[j] \in WhiteSpace
    IN  IF first >= Len(s) THEN <<>> ELSE SubSeq(s, first + 1, lastIx)

----------------------------------------------------------------------------
(* Numbers *)

\* the number of fractional decimal digits the model keeps of a number
FracDigits == 5

RECURSIVE Pow10(_)
Pow10(n) == IF n = 0 THEN 1 ELSE 10 * Pow10(n - 1)

\* one, in the units numbers are held in
Scale == Pow10(FracDigits)

\* 0.0001, the default epsilon of approxEqual
DefaultEpsilon == Scale \div 10000

\* 0.001, the epsilon the alpha comparisons pass
AlphaEpsilon == Scale \div 1000

NaN == -1

Undefined == -2

isNaN(x) == x = NaN

DigitVal(ch) ==
    CASE ch = "0" -> 0 [] ch = "1" -> 1 [] ch = "2" -> 2 [] ch = "3" -> 3
      [] ch = "4" -> 4 [] ch = "5" -> 5 [] ch = "6" -> 6 [] ch = "7" -> 7
      [] ch = "8" -> 8 [] ch = "9" -> 9

DigitCh(d) ==
    CASE d = 0 -> "0" [] d = 1 -> "1" [] d = 2 -> "2" [] d = 3 -> "3"
      [] d = 4 -> "4" [] d = 5 -> "5" [] d = 6 -> "6" [] d = 7 -> "7"
      [] d = 8 -> "8" [] d = 9 -> "9"

\* the value of a run of digits read as an integer
RECURSIVE DigitsValue(_)
DigitsValue(ds) ==
    IF ds = <<>> THEN 0
    ELSE 10 * DigitsValue(SubSeq(ds, 1, Len(ds) - 1)) + DigitVal(ds[Len(ds)])

\* the value of a run of digits read as a fraction, in units of 1/Scale
FractionValue(ds) ==
    IF Len(ds) <= FracDigits
    THEN DigitsValue(ds) * Pow10(FracDigits - Len(ds))
    ELSE DigitsValue(SubSeq(ds, 1, FracDigits))

\* parseFloat on a string of [\d.%] characters: the longest prefix that is a
\* decimal literal (digits, optionally a point and digits; or a point and
\* digits), NaN when there is none
parseFloat(s) ==
    LET intEnd  == SkipClass(s, 0, Digit)
        hasDot  == intEnd < Len(s) /\ s[intEnd + 1] = "."
        fracEnd == IF hasDot THEN SkipClass(s, intEnd + 1, Digit) ELSE intEnd
        intDs   == Substring(s, 0, intEnd)
        fracDs  == IF hasDot THEN Substring(s, intEnd + 1, fracEnd) ELSE <<>>
    IN  IF intDs = <<>> /\ fracDs = <<>> THEN NaN
        ELSE DigitsValue(intDs) * Scale + FractionValue(fracDs)

\* x / 100 on numbers
DivideBy100(x) == IF isNaN(x) THEN NaN ELSE x \div 100

\* Math.round(x * 100) for x >= 0
RoundTimes100(x) == (x * 100 * 2 + Scale) \div (2 * Scale)

\* the decimal digits of a natural number
RECURSIVE NatToString(_)
NatToString(n) ==
    IF n < 10 THEN <<DigitCh(n)>>
    ELSE NatToString(n \div 10) \o <<DigitCh(n % 10)>>

\* the digits of a fraction f (units of 1/Scale, 0 < f < Scale), trailing
\* zeros dropped
RECURSIVE FractionToString(_, _)
FractionToString(f, width) ==
    IF f = 0 THEN <<>>
    ELSE <<DigitCh(f \div Pow10(width - 1))>>
            \o FractionToString(f % Pow10(width - 1), width - 1)

\* Number.prototype.toString as a template literal applies it, for the
\* non-negative values of the model (all >= 1e-6, so never in exponent form)
NumberToString(x) ==
    NatToString(x \div Scale)
      \o (IF x % Scale = 0 THEN <<>>
          ELSE <<".">> \o FractionToString(x % Scale, FracDigits))

\* approxEqual(a, b, epsilon)
approxEqual(a, b, epsilon) ==
    IF isNaN(a) \/ isNaN(b) THEN FALSE ELSE Abs(a - b) < epsilon

----------------------------------------------------------------------------
(* Positions, ranges and lines of a document *)

\* vscode.Position
Position(line, character) == [line |-> line, character |-> character]

\* vscode.Range
Range(start, end) == [start |-> start, end |-> end]

\* the offsets (1-based indices) of the line terminators of t
EOLs(t) == {k \in 1..Len(t) : t[k] = EOL}

\* the number of line terminators in the first `off` characters of t
LineOfOffset(t, off) == Cardinality({k \in 1..off : t[k] = EOL})

\* document.lineCount
LineCount(t) == Cardinality(EOLs(t)) + 1

\* the offset at which line `line` starts (Len(t) + 1 when t has no such line)
LineStart(t, line) ==
    LET eols == EOLs(t)
    IN  IF line = 0 THEN 0
        ELSE IF Cardinality(eols) < line THEN Len(t) + 1
        ELSE CHOOSE k \in eols : Cardinality({j \in eols : j <= k}) = line

\* the offset of the end of the line that holds offset `off`
LineEndFrom(t, off) ==
    LET after == {k \in (off + 1)..Len(t) : t[k] = EOL}
    IN  IF after = {} THEN Max(off, Len(t))
        ELSE (CHOOSE k \in after : \A j \in after : k <= j) - 1

\* document.lineAt(line).text
LineText(t, line) ==
    LET s == LineStart(t, line) IN Substring(t, s, LineEndFrom(t, s))

\* document.positionAt(offset)
positionAt(t, off) ==
    LET o == Min(Max(off, 0), Len(t))
        l == LineOfOffset(t, o)
    IN  Position(l, o - LineStart(t, l))

\* document.offsetAt(position): the position is clamped to the document
offsetAt(t, pos) ==
    IF pos.line >= LineCount(t) THEN Len(t)
    ELSE LET s == LineStart(t, pos.line)
         IN  Min(s + pos.character, LineEndFrom(t, s))

\* Position.isBefore / isBeforeOrEqual
IsBefore(p, q) ==
    p.line < q.line \/ (p.line = q.line /\ p.character < q.character)

IsBeforeOrEqual(p, q) == p = q \/ IsBefore(p, q)

\* Range.contains(positionOrRange)
RangeContains(r, inner) ==
    IsBeforeOrEqual(r.start, inner.start) /\ IsBeforeOrEqual(inner.end, r.end)

\* Range.intersection(other) is defined (the ranges overlap or touch)
RangeIntersects(r, other) ==
    LET s == IF IsBefore(r.start, other.start) THEN other.start ELSE r.start
        e == IF IsBefore(r.end, other.end) THEN r.end ELSE other.end
    IN  IsBeforeOrEqual(s, e)

----------------------------------------------------------------------------
(* parseOklchFunctionsInRange *)

OKLCH == <<"o", "k", "l", "c", "h", "(">>

\* the value of a capture group that did not take part in the match, and of
\* an absent alphaString (group 4 never matches the empty string)
NoString == <<>>

\* One attempt of
\*   /oklch\(\s*([\d.]+)\s+([\d.]+)\s+([\d.]+)(\s*\/\s*[\d.%]+)?\s*\)/
\* at offset i of s.  Every quantified class is followed by a character
\* outside it, so each run is matched whole and the attempt has one outcome.
MatchAt(s, i) ==
    LET p1 == SkipClass(s, i + Len(OKLCH), WhiteSpace)
        e1 == SkipClass(s, p1, NumCh)
        p2 == SkipClass(s, e1, WhiteSpace)
        e2 == SkipClass(s, p2, NumCh)
        p3 == SkipClass(s, e2, WhiteSpace)
        e3 == SkipClass(s, p3, NumCh)
        q  == SkipClass(s, e3, WhiteSpace)
        a1 == SkipClass(s, q + 1, WhiteSpace)
        a2 == SkipClass(s, a1, AlphaCh)
        r  == SkipClass(s, a2, WhiteSpace)
        head == /\ StartsWithAt(s, i, OKLCH)
                /\ e1 > p1 /\ p2 > e1 /\ e2 > p2 /\ p3 > e2 /\ e3 > p3
        withAlpha == /\ q < Len(s) /\ s[q + 1] = "/"
                     /\ a2 > a1
                     /\ r < Len(s) /\ s[r + 1] = ")"
        noAlpha == q < Len(s) /\ s[q + 1] = ")"
        fail == [ok |-> FALSE, index |-> i, end |-> i, g1 |-> NoString,
                 g2 |-> NoString, g3 |-> NoString, g4 |-> NoString]
    IN  IF ~head THEN fail
        ELSE IF withAlpha
        THEN [ok |-> TRUE, index |-> i, end |-> r + 1,
              g1 |-> Substring(s, p1, e1), g2 |-> Substring(s, p2, e2),
              g3 |-> Substring(s, p3, e3), g4 |-> Substring(s, e3, a2)]
        ELSE IF noAlpha
        THEN [ok |-> TRUE, index |-> i, end |-> q + 1,
              g1 |-> Substring(s, p1, e1), g2 |-> Substring(s, p2, e2),
              g3 |-> Substring(s, p3, e3), g4 |-> NoString]
        ELSE fail

\* alphaString.match(/[\d.%]+/)[0]: the first run of [\d.%] characters
FirstAlphaRun(alphaString) ==
    LET from == CHOOSE k \in 0..Len(alphaString) :
                  /\ k = Len(alphaString) \/ alphaString[k + 1] \in AlphaCh
                  /\ \A j \in 1..k : alphaString[j] \notin AlphaCh
    IN  Substring(alphaString, from, SkipClass(alphaString, from, AlphaCh))

\* the numeric alpha of an alpha string (lines 208-219 and 302-312)
AlphaOf(alphaString) ==
    IF alphaString = NoString THEN Undefined
    ELSE LET alphaStrNumeric == FirstAlphaRun(alphaString)
         IN  IF alphaStrNumeric = <<>> THEN Undefined
             ELSE IF EndsWith(alphaStrNumeric, "%")
             THEN DivideBy100(parseFloat(
                      Substring(alphaStrNumeric, 0, Len(alphaStrNumeric) - 1)))
             ELSE parseFloat(alphaStrNumeric)

\* a scanner that pushes every match whose l, c and h are numbers, whatever
\* its alpha came to
ParsedOf_AlphaUnchecked(t, base, m) ==
    LET l == parseFloat(m.g1)
        c == parseFloat(m.g2)
        h == parseFloat(m.g3)
    IN  IF ~isNaN(l) /\ ~isNaN(c) /\ ~isNaN(h)
        THEN <<[l |-> l, c |-> c, h |-> h, alpha |-> AlphaOf(m.g4),
                alphaString |-> m.g4,
                range |-> Range(positionAt(t, base + m.index),
                                positionAt(t, base + m.end))]>>
        ELSE <<>>

\* the record one match pushes, <<>> when the match is skipped
ParsedOf(t, base, m) ==
    LET l == parseFloat(m.g1)
        c == parseFloat(m.g2)
        h == parseFloat(m.g3)
        alphaString == m.g4
        alpha == AlphaOf(alphaString)
    IN  IF ~isNaN(l) /\ ~isNaN(c) /\ ~isNaN(h)
        THEN IF \/ (alphaString # NoString /\ alpha = Undefined)
                \/ (alpha # Undefined /\ isNaN(alpha))
             THEN <<>>
             ELSE <<[l |-> l, c |-> c, h |-> h, alpha |-> alpha,
                     alphaString |-> alphaString,
                     range |-> Range(positionAt(t, base + m.index),
                                     positionAt(t, base + m.end))]>>
        ELSE <<>>

\* the least offset >= from at which the literal head of the pattern stands
\* in s, or -1: no attempt before it can match
NextHead(s, from) ==
    LET heads == {i \in from..(Len(s) - Len(OKLCH)) : StartsWithAt(s, i, OKLCH)}
    IN  IF heads = {} THEN -1 ELSE CHOOSE i \in heads : \A j \in heads : i <= j

\* the while loop over regex.exec: the leftmost match at or after lastIndex,
\* then on from its end
RECURSIVE ExecLoop(_, _, _, _)
ExecLoop(t, base, s, lastIndex) ==
    LET i == NextHead(s, lastIndex)
        m == MatchAt(s, i)
    IN  IF i = -1 THEN <<>>
        ELSE IF m.ok
        THEN ParsedOf(t, base, m) \o ExecLoop(t, base, s, m.end)
        ELSE ExecLoop(t, base, s, i + 1)

\* parseOklchFunctionsInRange(document, range)
parseOklchFunctionsInRange(t, range) ==
    LET from == offsetAt(t, range.start)
        to   == offsetAt(t, range.end)
    IN  ExecLoop(t, from, Substring(t, from, to), 0)

\* new vscode.Range(document.positionAt(0), document.positionAt(length))
FullRange(t) == Range(positionAt(t, 0), positionAt(t, Len(t)))

\* document.lineAt(line).range
LineRange(t, line) ==
    Range(Position(line, 0), Position(line, Len(LineText(t, line))))

----------------------------------------------------------------------------
(* The palette *)

\* a ColorMapEntry
Entry(name, l, c, h) == [name |-> name, oklch |-> [l |-> l, c |-> c, h |-> h]]

\* null, which is no string
Null == <<"null">>

\* whether a string-or-null value is truthy
Truthy(x) == x # Null /\ x # <<>>

\* a lookup that wants the three components equal, not approximately equal
FindFrom_Exact(map, i, l, c, h) ==
    LET hits == {k \in i..Len(map) : /\ map[k].oklch.l = l
                                     /\ map[k].oklch.c = c
                                     /\ map[k].oklch.h = h}
    IN  IF hits = {} THEN Null
        ELSE map[CHOOSE k \in hits : \A j \in hits : k <= j].name

\* the for loop of findColorName from entry i on
RECURSIVE FindFrom(_, _, _, _, _)
FindFrom(map, i, l, c, h) ==
    IF i > Len(map) THEN Null
    ELSE IF /\ approxEqual(map[i].oklch.l, l, DefaultEpsilon)
            /\ approxEqual(map[i].oklch.c, c, DefaultEpsilon)
            /\ approxEqual(map[i].oklch.h, h, DefaultEpsilon)
    THEN map[i].name
    ELSE FindFrom(map, i + 1, l, c, h)

\* findColorName(l, c, h) over the colorMap `map`
findColorName(map, l, c, h) == FindFrom(map, 1, l, c, h)

\* the file src/map.json: a JSON array of entries, or a file that cannot be
\* read or parsed
MapFileOk(entries) == [kind |-> "json", entries |-> entries]

MapFileMissing == [kind |-> "missing", entries |-> <<>>]

\* a file JSON.parse rejects; `readable` is what its text still shows
MapFileCorrupt(readable) == [kind |-> "corrupt", entries |-> readable]

\* whether the try block of loadColorMap throws
LoadThrows(file) == file.kind # "json"

\* a load that keeps whatever it could read of a file it cannot parse
loadColorMap_KeepsReadable(file, before) ==
    IF file.kind = "missing" THEN before ELSE file.entries

\* colorMap after loadColorMap, given colorMap before it
loadColorMap(file, before) == IF LoadThrows(file) THEN before ELSE file.entries

----------------------------------------------------------------------------
(* Comments and labels *)

Custom == <<"C", "u", "s", "t", "o", "m">>

CommentOpen == <<"/", "*">>

CommentClose == <<"*", "/">>

\* the number 1.0
One == Scale

\* the end of the shortest .*? that "*" "/" follows, from offset `from` on:
\* the offset of that "*", or -1; "." matches no line terminator
RECURSIVE LazyClose(_, _)
LazyClose(s, from) ==
    IF from + Len(CommentClose) > Len(s) THEN -1
    ELSE IF StartsWithAt(s, from, CommentClose) THEN from
    ELSE IF s[from + 1] = EOL THEN -1
    ELSE LazyClose(s, from + 1)

\* s.match(/^(\s*)(\/\*.*?\*\/)/): the groups, or ok = FALSE
CommentMatch(s) ==
    LET ws    == SkipClass(s, 0, WhiteSpace)
        close == LazyClose(s, ws + Len(CommentOpen))
    IN  IF StartsWithAt(s, ws, CommentOpen) /\ close # -1
        THEN [ok |-> TRUE, g1 |-> Substring(s, 0, ws),
              g2 |-> Substring(s, ws, close + Len(CommentClose))]
        ELSE [ok |-> FALSE, g1 |-> NoString, g2 |-> NoString]

\* a suffix rule that leaves the suffix out whenever the alpha rounds to 100%
AnnotateSuffix_Rounded(alpha) ==
    IF alpha # Undefined /\ RoundTimes100(alpha) # 100
    THEN <<" ", "/", " ">> \o NatToString(RoundTimes100(alpha)) \o <<"%">>
    ELSE <<>>

\* " / N%" when the alpha is present and not approximately 1, as Annotate
\* (lines 130-133) and selectColorHandler (lines 314-317) append it
AnnotateSuffix(alpha) ==
    IF alpha # Undefined /\ ~approxEqual(alpha, One, AlphaEpsilon)
    THEN <<" ", "/", " ">> \o NatToString(RoundTimes100(alpha)) \o <<"%">>
    ELSE <<>>

\* " / N%" as provideHover appends it (lines 418-423)
HoverSuffix(alpha) ==
    IF alpha # Undefined
    THEN LET alphaPercentage == RoundTimes100(alpha)
         IN  IF alphaPercentage # 100
             THEN <<" ", "/", " ">> \o NatToString(alphaPercentage) \o <<"%">>
             ELSE <<>>
    ELSE <<>>

\* baseCommentText of annotateOklchColorsHandler
BaseCommentText(colorName, alpha) ==
    (IF Truthy(colorName) THEN colorName ELSE Custom) \o AnnotateSuffix(alpha)

\* ` /* ${baseCommentText} */`
CommentText(base) == <<" ", "/", "*", " ">> \o base \o <<" ", "*", "/">>

\* `**${colorName}**` and the alpha suffix
HoverText(colorName, alpha) ==
    <<"*", "*">> \o colorName \o <<"*", "*">> \o HoverSuffix(alpha)

----------------------------------------------------------------------------
(* Workspace edits *)

\* edit.replace(uri, range, newText)
Replace(range, newText) == [range |-> range, newText |-> newText]

\* edit.insert(uri, position, newText)
Insert(position, newText) == Replace(Range(position, position), newText)

\* edit.delete(uri, range)
Delete(range) == Replace(range, <<>>)

\* an edit's range as offsets into t
EditSpan(t, e) ==
    [from |-> offsetAt(t, e.range.start), to |-> offsetAt(t, e.range.end)]

\* whether a comes before b when the host sorts edits by range end, then start
SortsBefore(a, b) == a.to < b.to \/ (a.to = b.to /\ a.from <= b.from)

\* two edits of a batch overlap: the later-sorted one starts before the
\* earlier-sorted one ends (touching ranges do not overlap)
SpansOverlap(a, b) ==
    \/ (SortsBefore(a, b) /\ b.from < a.to)
    \/ (SortsBefore(b, a) /\ a.from < b.to)

\* whether some two edits of the batch overlap
HasOverlap(t, edits) ==
    \E i, j \in 1..Len(edits) :
        i < j /\ SpansOverlap(EditSpan(t, edits[i]), EditSpan(t, edits[j]))

\* the edits of a batch without overlap applied to t, last range first
RECURSIVE ApplySorted(_, _, _)
ApplySorted(t, orig, todo) ==
    IF todo = {} THEN t
    ELSE LET i == CHOOSE k \in todo :
                    \A j \in todo : SortsBefore(EditSpan(orig, j), EditSpan(orig, k))
             sp == EditSpan(orig, i)
         IN  ApplySorted(Substring(t, 0, sp.from) \o i.newText \o SubstringFrom(t, sp.to),
                         orig, todo \ {i})

\* vscode.workspace.applyEdit(edit): the host rejects a batch with overlapping
\* ranges and leaves the document as it was
applyEdit(t, edits) ==
    IF HasOverlap(t, edits) THEN [success |-> FALSE, text |-> t]
    ELSE [success |-> TRUE,
          text |-> ApplySorted(t, t, {edits[k] : k \in 1..Len(edits)})]

----------------------------------------------------------------------------
(* The command handlers *)

\* the text after a position on its line: line.text.substring(character)
TextAfter(t, pos) == SubstringFrom(LineText(t, pos.line), pos.character)

\* one pass of the Annotate loop (lines 125-164): the edit for one color,
\* none when its comment is already the wanted one
AnnotateEditFor(t, map, color) ==
    LET colorName == findColorName(map, color.l, color.c, color.h)
        commentText == CommentText(BaseCommentText(colorName, color.alpha))
        textAfterColor == TextAfter(t, color.range.end)
        existingCommentMatch == CommentMatch(textAfterColor)
        commentStartIndex == color.range.end.character
                               + IndexOf(textAfterColor, existingCommentMatch.g2)
        commentEndIndex == commentStartIndex + Len(existingCommentMatch.g2)
        commentRange == Range(Position(color.range.end.line, commentStartIndex),
                              Position(color.range.end.line, commentEndIndex))
    IN  IF existingCommentMatch.ok
        THEN IF existingCommentMatch.g2 # Trim(commentText)
             THEN <<Replace(commentRange, Trim(commentText))>>
             ELSE <<>>
        ELSE <<Insert(color.range.end, commentText)>>

\* the Annotate loop, from color i down to the first
RECURSIVE AnnotateLoop(_, _, _, _)
AnnotateLoop(t, map, parsedColors, i) ==
    IF i = 0 THEN <<>>
    ELSE AnnotateEditFor(t, map, parsedColors[i])
           \o AnnotateLoop(t, map, parsedColors, i - 1)

\* the WorkspaceEdit annotateOklchColorsHandler builds for document t
AnnotateEdits(t, map) ==
    LET parsedColors == parseOklchFunctionsInRange(t, FullRange(t))
    IN  AnnotateLoop(t, map, parsedColors, Len(parsedColors))

\* the document after annotateOklchColorsHandler has run on t
AnnotateText(t, map) == applyEdit(t, AnnotateEdits(t, map)).text

\* a removal that deletes the comment and leaves the whitespace before it
RemoveEditFor_CommentOnly(t, color) ==
    LET commentMatch == CommentMatch(TextAfter(t, color.range.end))
        commentStartIndex == color.range.end.character + Len(commentMatch.g1)
        commentEndIndex == commentStartIndex + Len(commentMatch.g2)
    IN  IF commentMatch.ok
        THEN <<Delete(Range(Position(color.range.end.line, commentStartIndex),
                            Position(color.range.end.line, commentEndIndex)))>>
        ELSE <<>>

\* one pass of the RemoveAnnotations loop (lines 65-85)
RemoveEditFor(t, color) ==
    LET textAfterColor == TextAfter(t, color.range.end)
        commentMatch == CommentMatch(textAfterColor)
        commentStartIndex == color.range.end.character + Len(commentMatch.g1)
        commentEndIndex == commentStartIndex + Len(commentMatch.g2)
        whitespaceStartIndex == color.range.end.character
        rangeToDelete == Range(Position(color.range.end.line, whitespaceStartIndex),
                               Position(color.range.end.line, commentEndIndex))
    IN  IF commentMatch.ok THEN <<Delete(rangeToDelete)>> ELSE <<>>

RECURSIVE RemoveLoop(_, _, _)
RemoveLoop(t, parsedColors, i) ==
    IF i = 0 THEN <<>>
    ELSE RemoveEditFor(t, parsedColors[i]) \o RemoveLoop(t, parsedColors, i - 1)

\* the WorkspaceEdit removeOklchColorAnnotationsHandler builds for document t
RemoveEdits(t) ==
    LET parsedColors == parseOklchFunctionsInRange(t, FullRange(t))
    IN  RemoveLoop(t, parsedColors, Len(parsedColors))

\* the document after removeOklchColorAnnotationsHandler has run on t
RemoveText(t) == applyEdit(t, RemoveEdits(t)).text

\* a replacement that writes the alpha back from its normalized number
ReplacementString_FromNumber(selectedEntry, originalAlphaString) ==
    OKLCH \o NumberToString(selectedEntry.oklch.l) \o <<" ">>
          \o NumberToString(selectedEntry.oklch.c) \o <<" ">>
          \o NumberToString(selectedEntry.oklch.h)
          \o (IF originalAlphaString # NoString
              THEN <<" ", "/", " ">> \o NumberToString(AlphaOf(originalAlphaString))
              ELSE <<>>)
          \o <<")">>

\* the replacement string of selectColorHandler (lines 268-274)
ReplacementString(selectedEntry, originalAlphaString) ==
    OKLCH \o NumberToString(selectedEntry.oklch.l) \o <<" ">>
          \o NumberToString(selectedEntry.oklch.c) \o <<" ">>
          \o NumberToString(selectedEntry.oklch.h)
          \o (IF originalAlphaString # NoString THEN originalAlphaString ELSE <<>>)
          \o <<")">>

\* the comment edit of selectColorHandler (lines 283-324), none when no
\* comment follows the target range
SelectCommentEdit(t, targetRange, originalAlphaString, selectedEntry) ==
    LET textAfterColor == TextAfter(t, targetRange.end)
        commentMatch == CommentMatch(textAfterColor)
        whitespaceLength == Len(commentMatch.g1)
        commentTextLength == Len(commentMatch.g2)
        commentStartChar == targetRange.end.character + whitespaceLength
        commentEndChar == commentStartChar + commentTextLength
        existingCommentRange == Range(Position(targetRange.end.line, commentStartChar),
                                      Position(targetRange.end.line, commentEndChar))
        originalNumericAlpha == AlphaOf(originalAlphaString)
        newCommentBaseText == selectedEntry.name \o AnnotateSuffix(originalNumericAlpha)
        newCommentText == CommentOpen \o <<" ">> \o newCommentBaseText \o <<" ">>
                            \o CommentClose
    IN  IF commentMatch.ok
        THEN <<Replace(existingCommentRange, newCommentText)>>
        ELSE <<>>

\* the WorkspaceEdit selectColorHandler builds once an item is selected
SelectEdits(t, targetRange, originalAlphaString, selectedEntry) ==
    SelectCommentEdit(t, targetRange, originalAlphaString, selectedEntry)
      \o <<Replace(Range(Position(targetRange.start.line, targetRange.start.character),
                         Position(targetRange.end.line, targetRange.end.character)),
                   ReplacementString(selectedEntry, originalAlphaString))>>

\* the first color of the line's parsed colors that provideCodeActions
\* targets for a cursor or selection (lines 351-357): <<>> or one color
TargetColor(parsedColorsOnLine, range, isSelection) ==
    LET hits == {i \in 1..Len(parsedColorsOnLine) :
                    IF isSelection
                    THEN RangeIntersects(parsedColorsOnLine[i].range, range)
                    ELSE RangeContains(parsedColorsOnLine[i].range, range)}
    IN  IF hits = {} THEN <<>>
        ELSE <<parsedColorsOnLine[CHOOSE i \in hits : \A j \in hits : i <= j]>>

\* the first color of the line's parsed colors whose range contains the
\* hovered position (lines 412-413): <<>> or one color
HoverColor(parsedColors, position) ==
    LET hits == {i \in 1..Len(parsedColors) :
                    RangeContains(parsedColors[i].range, Range(position, position))}
    IN  IF hits = {} THEN <<>>
        ELSE <<parsedColors[CHOOSE i \in hits : \A j \in hits : i <= j]>>

\* what provideHover shows for a color: the hover text, or null
HoverResult(map, color) ==
    LET colorName == findColorName(map, color.l, color.c, color.h)
    IN  IF Truthy(colorName) THEN HoverText(colorName, color.alpha) ELSE Null

----------------------------------------------------------------------------
(* The inputs: documents and palette files *)

\* the longest document of Docs, in chunks
MaxChunks == 4

\* the longest palette of PaletteFiles, in entries
MaxEntries == 2

RECURSIVE Flatten(_)
Flatten(ss) == IF ss = <<>> THEN <<>> ELSE Head(ss) \o Flatten(Tail(ss))

SeqsUpTo(S, n) == UNION {[1..k -> S] : k \in 0..n}

\* oklch(<l> <c> <h><alphaString>) as it is written in a stylesheet
OklchLit(l, c, h, alphaString) ==
    OKLCH \o l \o <<" ">> \o c \o <<" ">> \o h \o alphaString \o <<")">>

SkyL == <<"0", ".", "5">>

SkyC == <<"0", ".", "1">>

SkyH == <<"2", "0">>

\* the palette entries of the model, as JSON.parse reads their numbers
Sky == Entry(<<"s", "k", "y">>, parseFloat(SkyL), parseFloat(SkyC), parseFloat(SkyH))

Rose == Entry(<<"r", "o", "s", "e">>, parseFloat(<<"0", ".", "6">>),
              parseFloat(<<"0", ".", "2">>), parseFloat(<<"1", "0">>))

\* an entry with the numbers of Sky under another name
Azure == Entry(<<"a", "z">>, Sky.oklch.l, Sky.oklch.c, Sky.oklch.h)

\* an entry 0.00005 away from Sky in lightness: within the default epsilon
NearSky == Entry(<<"n", "s">>, parseFloat(<<"0", ".", "5", "0", "0", "0", "5">>),
                 Sky.oklch.c, Sky.oklch.h)

\* the palette the document specifications load
Palette == <<Sky, Rose>>

\* a color of the palette, and one that is not in it and has an alpha
SkyLit == OklchLit(SkyL, SkyC, SkyH, <<>>)

OtherLit == OklchLit(<<"1">>, <<"0">>, <<"0">>, <<" ", "/", " ", "5", "0", "%">>)

ColorChunks == {SkyLit, OtherLit}

Chunks == {OtherLit, <<" ">>, CommentOpen, CommentClose, <<EOL>>}

\* documents: a color and up to MaxChunks - 1 further chunks
Docs ==
    {first \o Flatten(rest) :
        first \in ColorChunks, rest \in SeqsUpTo(Chunks, MaxChunks - 1)}

\* ways a stylesheet writes the lightness: the palette's, one within the
\* default epsilon of it, and two that are no decimals
LightnessForms ==
    {SkyL, <<"0", ".", "5", "0", "0", "0", "5">>, <<"1", ".", "2", ".", "3">>, <<".">>}

\* ways a stylesheet writes the alpha part, <<>> for none
AlphaForms ==
    {<<>>,
     <<" ", "/", " ", "1", "0", "0", "%">>,
     <<" ", "/", " ", "5", "0", "%">>,
     <<"/", "0", ".", "8">>,
     <<"/", " ", "1">>,
     <<" ", "/", " ", "9", "9", ".", "7", "%">>,
     <<" ", "/", " ", "1", "5", "0", "%">>,
     <<"/", " ", "2">>,
     <<" ", "/", " ", "5", "0", "%", "%">>,
     <<"/", " ", "%", "5">>,
     <<"/", " ", ".">>,
     <<" ", "/", " ", "1", ".", "2", ".", "3">>}

\* what follows the color in these documents: nothing, or a comment
Trailers == {<<>>, <<" ">> \o CommentOpen \o CommentClose}

\* documents of one color each, written in every one of these ways
AlphaDocs ==
    {OklchLit(l, SkyC, SkyH, a) \o tr :
        l \in LightnessForms, a \in AlphaForms, tr \in Trailers}

\* the entries palette files are made of
Entries == {Sky, Rose, Azure, NearSky}

\* the files src/map.json may be: every palette of up to MaxEntries entries,
\* no file, and a file cut short that JSON.parse rejects
PaletteFiles ==
    {MapFileOk(p) : p \in SeqsUpTo(Entries, MaxEntries)}
      \cup {MapFileMissing, MapFileCorrupt(<<Sky>>)}

\* the document the palette specification opens: one color, written with
\* the triple of Sky
PaletteDocs == {SkyLit}

----------------------------------------------------------------------------
(* The state machine *)

NoOp == [op |-> "none", before |-> <<>>, edits |-> <<>>, applied |-> FALSE,
         out |-> Null, color |-> <<>>, choice |-> <<>>]

InitRest ==
    /\ colorMap = <<>>
    /\ loadState = "init"
    /\ errorsShown = 0
    /\ pending = <<>>
    /\ last = NoOp

\* documents of several chunks, and the palette loaded
InitDocs ==
    /\ text \in Docs
    /\ mapFile = MapFileOk(Palette)
    /\ InitRest

\* activate(): loadColorMap, then the commands and providers are registered
Activate ==
    /\ loadState = "init"
    /\ colorMap' = loadColorMap(mapFile, colorMap)
    /\ loadState' = IF LoadThrows(mapFile) THEN "failed" ELSE "ok"
    /\ errorsShown' = errorsShown + (IF LoadThrows(mapFile) THEN 1 ELSE 0)
    /\ last' = [NoOp EXCEPT !.op = "activate", !.before = text]
    /\ UNCHANGED <<text, mapFile, pending>>

\* annotateOklchColorsHandler
Annotate ==
    /\ loadState # "init"
    /\ LET parsedColors == parseOklchFunctionsInRange(text, FullRange(text))
           edits == AnnotateLoop(text, colorMap, parsedColors, Len(parsedColors))
           res == applyEdit(text, edits)
       IN  IF Len(parsedColors) = 0
           THEN /\ text' = text
                /\ last' = [NoOp EXCEPT !.op = "annotate", !.before = text]
           ELSE /\ text' = res.text
                /\ last' = [NoOp EXCEPT !.op = "annotate", !.before = text,
                                        !.edits = edits, !.applied = res.success]
    /\ UNCHANGED <<mapFile, colorMap, loadState, errorsShown, pending>>

\* removeOklchColorAnnotationsHandler
RemoveAnnotations ==
    /\ loadState # "init"
    /\ LET parsedColors == parseOklchFunctionsInRange(text, FullRange(text))
           edits == RemoveLoop(text, parsedColors, Len(parsedColors))
           commentsRemovedCount == Len(edits)
           res == applyEdit(text, edits)
       IN  IF Len(parsedColors) = 0 \/ commentsRemovedCount = 0
           THEN /\ text' = text
                /\ last' = [NoOp EXCEPT !.op = "remove", !.before = text]
           ELSE /\ text' = res.text
                /\ last' = [NoOp EXCEPT !.op = "remove", !.before = text,
                                        !.edits = edits, !.applied = res.success]
    /\ UNCHANGED <<mapFile, colorMap, loadState, errorsShown, pending>>

\* what provideHover does at the positions of one line of t: for each
\* position the color found (<<>> for none) and the text shown (Null for none)
HoversOnLine(t, map, line) ==
    LET parsedColors == parseOklchFunctionsInRange(t, LineRange(t, line))
    IN  {LET color == HoverColor(parsedColors, Position(line, character))
         IN  [color |-> color,
              out |-> IF color = <<>> THEN Null ELSE HoverResult(map, color[1])] :
            character \in 0..Len(LineText(t, line))}

\* provideHover at some position of the document
Hover ==
    /\ loadState # "init"
    /\ \E line \in 0..(LineCount(text) - 1) :
          \E hover \in HoversOnLine(text, colorMap, line) :
             last' = [NoOp EXCEPT !.op = "hover", !.before = text,
                                  !.color = hover.color, !.out = hover.out]
    /\ UNCHANGED <<text, mapFile, colorMap, loadState, errorsShown, pending>>

\* the command arguments provideCodeActions hands out on one line of t, for
\* every cursor and every one-character range or selection on it: <<>> when
\* it offers no action (lines 359-377)
ActionsOnLine(t, line) ==
    LET parsedColorsOnLine == parseOklchFunctionsInRange(t, LineRange(t, line))
        width == Len(LineText(t, line))
    IN  {LET range == Range(Position(line, character),
                            Position(line, Min(character + extent, width)))
             targetColor == TargetColor(parsedColorsOnLine, range, isSelection)
         IN  IF targetColor = <<>> THEN <<>>
             ELSE <<[targetRange |-> targetColor[1].range,
                     originalAlphaString |-> targetColor[1].alphaString]>> :
            character \in 0..width, extent \in 0..1, isSelection \in BOOLEAN}

\* provideCodeActions somewhere in the document; the host keeps the command
\* arguments of the action it offers
ProvideCodeActions ==
    /\ loadState # "init"
    /\ \E line \in 0..(LineCount(text) - 1) :
          \E arguments \in ActionsOnLine(text, line) : pending' = arguments
    /\ UNCHANGED <<text, mapFile, colorMap, loadState, errorsShown, last>>

\* the selectColor command: selectColorHandler with the offered arguments and
\* the user's pick (0: the quick pick is dismissed)
SelectColor ==
    /\ loadState # "init"
    /\ pending # <<>>
    /\ \E pick \in 0..Len(colorMap) :
          LET targetRange == pending[1].targetRange
              originalAlphaString == pending[1].originalAlphaString
              lineExists == targetRange.end.line < LineCount(text)
              edits == SelectEdits(text, targetRange, originalAlphaString, colorMap[pick])
              res == applyEdit(text, edits)
          IN  IF pick = 0 \/ ~lineExists
              THEN /\ text' = text
                   /\ last' = [NoOp EXCEPT !.op = "select", !.before = text]
              ELSE /\ text' = res.text
                   /\ last' = [NoOp EXCEPT !.op = "select", !.before = text,
                                           !.edits = edits, !.applied = res.success,
                                           !.color = pending,
                                           !.choice = <<colorMap[pick]>>]
    /\ pending' = <<>>
    /\ UNCHANGED <<mapFile, colorMap, loadState, errorsShown>>

Next ==
    \/ Activate
    \/ Annotate
    \/ RemoveAnnotations
    \/ Hover
    \/ ProvideCodeActions
    \/ SelectColor

\* the two commands that annotate
NextAnnotate ==
    \/ Activate
    \/ Annotate
    \/ RemoveAnnotations

\* documents of several chunks under the annotating commands
SpecAnnotate == InitDocs /\ [][NextAnnotate]_vars

\* documents of one color, written in many ways, and the palette loaded
InitAlpha ==
    /\ text \in AlphaDocs
    /\ mapFile = MapFileOk(Palette)
    /\ InitRest

SpecAlpha == InitAlpha /\ [][Next]_vars

\* every palette file, and a document of one color
Init ==
    /\ text \in PaletteDocs
    /\ mapFile \in PaletteFiles
    /\ InitRest

Spec == Init /\ [][Next]_vars

\* what stands between the two colors of the documents of ReplaceDocs
Separators == {<<" ">>, <<EOL>>, <<" ">> \o CommentOpen \o CommentClose \o <<" ">>}

\* documents of two colors, on one line or on two, for the quick fix
ReplaceDocs ==
    {first \o sep \o second :
        first \in ColorChunks, sep \in Separators, second \in ColorChunks}

\* every command and provider, up to the first replacement by selectColor
NextReplace ==
    \/ last.op # "select" /\ Activate
    \/ last.op # "select" /\ Annotate
    \/ last.op # "select" /\ RemoveAnnotations
    \/ last.op # "select" /\ Hover
    \/ last.op # "select" /\ ProvideCodeActions
    \/ last.op # "select" /\ SelectColor

\* documents of two colors: the document may change between
\* provideCodeActions and the selectColor command
InitReplace ==
    /\ text \in ReplaceDocs
    /\ mapFile = MapFileOk(Palette)
    /\ InitRest

SpecReplace == InitReplace /\ [][NextReplace]_vars

----------------------------------------------------------------------------
(* Claims about Annotate and RemoveAnnotations, under SpecAnnotate *)

\* the colors the scanner finds in the whole of document t
ColorsOf(t) == parseOklchFunctionsInRange(t, FullRange(t))

\* t holds no block comment: no "/" "*" with a "*" "/" after it on its line
NoBlockComment(t) ==
    \A i \in 0..Len(t) :
        StartsWithAt(t, i, CommentOpen) => LazyClose(t, i + Len(CommentOpen)) = -1

\* C1: once Annotate has run, a second run yields the same text and
\* computes no insert and no replace for any color
C1_AnnotateIdempotent ==
    last.op = "annotate" =>
        /\ AnnotateText(text, colorMap) = text
        /\ AnnotateEdits(text, colorMap) = <<>>

\* C7: the edits of one Annotate batch, and of one RemoveAnnotations batch,
\* do not overlap one another
C7_NoOverlapInBatch ==
    last.op \in {"annotate", "remove"} => ~HasOverlap(last.before, last.edits)

\* C2: for a text without block comment, Annotate and then RemoveAnnotations
\* restores the text character for character
C2_RemoveUndoesAnnotate ==
    [][(/\ last.op = "annotate"
        /\ NoBlockComment(last.before)
        /\ last'.op = "remove") => text' = last.before]_vars

\* C2 witness: RemoveAnnotations has just undone an Annotate that wrote
\* several comments into a text without comments, one of them before
\* whitespace that followed the color
C2_Witness ==
    /\ last.op = "remove"
    /\ last.applied
    /\ Len(last.edits) >= 2
    /\ NoBlockComment(text)
    /\ last.before = AnnotateText(text, colorMap)
    /\ \E i \in 1..Len(ColorsOf(text)) :
          LET after == TextAfter(text, ColorsOf(text)[i].range.end)
          IN  after # <<>> /\ after[1] = " "

----------------------------------------------------------------------------
(* Claims about the scanner, the labels and ReplaceColor, under SpecAlpha *)

\* a decimal of the stated grammar: digits, optionally a point and digits
IsDecimal(s) ==
    LET intEnd == SkipClass(s, 0, Digit)
    IN  /\ intEnd > 0
        /\ \/ intEnd = Len(s)
           \/ /\ s[intEnd + 1] = "."
              /\ Len(s) > intEnd + 1
              /\ SkipClass(s, intEnd + 1, Digit) = Len(s)

\* an alpha value of the stated grammar: a decimal, or a decimal and "%"
IsAlphaValue(s) ==
    \/ IsDecimal(s)
    \/ (EndsWith(s, "%") /\ IsDecimal(SubSeq(s, 1, Len(s) - 1)))

\* the match the scanner made for a color it emitted from document t
MatchOf(t, color) == MatchAt(t, offsetAt(t, color.range.start))

\* C5: every color the scanner emits is written in the stated grammar: each
\* of l, c, h a decimal, the alpha value a decimal with at most one "%"
C5_OnlyGrammarEmitted ==
    \A i \in 1..Len(ColorsOf(text)) :
        LET m == MatchOf(text, ColorsOf(text)[i])
        IN  /\ IsDecimal(m.g1) /\ IsDecimal(m.g2) /\ IsDecimal(m.g3)
            /\ m.g4 = NoString \/ IsAlphaValue(FirstAlphaRun(m.g4))

\* C6 as stated: every emitted alpha lies in [0, 1]
C6_AlphaInUnitInterval ==
    \A i \in 1..Len(ColorsOf(text)) :
        LET alpha == ColorsOf(text)[i].alpha
        IN  alpha # Undefined => (0 <= alpha /\ alpha <= One)

\* C6 as amended: every emitted alpha is a number, not NaN, and not negative
C6_AlphaIsNonNegativeNumber ==
    \A i \in 1..Len(ColorsOf(text)) :
        LET color == ColorsOf(text)[i]
        IN  color.alphaString # NoString =>
                /\ color.alpha # Undefined
                /\ ~isNaN(color.alpha)
                /\ color.alpha >= 0

\* C6 witness: Annotate has labelled a color whose alpha, written as a
\* percentage, is above 1
C6_Witness ==
    /\ last.op = "annotate"
    /\ last.applied
    /\ \E i \in 1..Len(ColorsOf(text)) :
          /\ ColorsOf(text)[i].alpha > One
          /\ EndsWith(ColorsOf(text)[i].alphaString, "%")

\* the label the claim C9 describes for a color, written out from its words
C9_Label(map, color) ==
    LET name == findColorName(map, color.l, color.c, color.h)
    IN  (IF name # Null THEN name ELSE <<"C", "u", "s", "t", "o", "m">>)
          \o (IF color.alpha # Undefined /\ Abs(color.alpha - One) >= AlphaEpsilon
              THEN <<" ", "/", " ">> \o NatToString(RoundTimes100(color.alpha))
                     \o <<"%">>
              ELSE <<>>)

\* C9: for every color of the document, Annotate writes " /* label */" with
\* the label of the claim: inserted right after the closing paren when no
\* comment follows, and put in the place of a differing comment that does
\* (there without the leading space)
C9_AnnotateComment ==
    last.op = "annotate" =>
        \A i \in 1..Len(ColorsOf(last.before)) :
            LET t == last.before
                color == ColorsOf(t)[i]
                comment == <<"/", "*", " ">> \o C9_Label(colorMap, color)
                             \o <<" ", "*", "/">>
                follows == CommentMatch(TextAfter(t, color.range.end))
                end == color.range.end
            IN  /\ t[offsetAt(t, end)] = ")"
                /\ IF ~follows.ok
                   THEN \E k \in 1..Len(last.edits) :
                           last.edits[k] = [range |-> Range(end, end),
                                            newText |-> <<" ">> \o comment]
                   ELSE \/ follows.g2 = comment
                        \/ \E k \in 1..Len(last.edits) :
                              /\ last.edits[k].newText = comment
                              /\ last.edits[k].range.start =
                                    Position(end.line, end.character + Len(follows.g1))
                              /\ last.edits[k].range.end =
                                    Position(end.line, end.character + Len(follows.g1)
                                                         + Len(follows.g2))

\* C9 witness: Annotate has inserted " /* sky */", without alpha suffix,
\* after a palette color written with "/ 100%"
C9_Witness ==
    /\ last.op = "annotate"
    /\ last.applied
    /\ Len(last.edits) = 1
    /\ last.edits[1].newText = <<" ", "/", "*", " ", "s", "k", "y", " ", "*", "/">>
    /\ last.edits[1].range.start = last.edits[1].range.end
    /\ ColorsOf(last.before)[1].alpha = One
    /\ ColorsOf(last.before)[1].range.end = last.edits[1].range.start

\* the hover text as it is displayed: the markdown without its "**" markers
Displayed(markdown) == SelectSeq(markdown, LAMBDA ch : ch # "*")

\* C10: the string hover displays for a color is the label Annotate writes
\* for the same color
C10_HoverAgreesWithAnnotate ==
    (last.op = "hover" /\ last.out # Null) =>
        LET color == last.color[1]
        IN  Displayed(last.out) =
                BaseCommentText(findColorName(colorMap, color.l, color.c, color.h),
                                color.alpha)

\* C3: the color edit of ReplaceColor covers the range the quick fix was
\* offered for, and its text reads back as oklch of the chosen entry's l, c
\* and h with the alpha text exactly as it was scanned, or with none
C3_ReplacementKeepsAlphaText ==
    (last.op = "select" /\ last.edits # <<>>) =>
        LET edit == last.edits[Len(last.edits)]
            arguments == last.color[1]
            entry == last.choice[1]
            raw == arguments.originalAlphaString
            back == ColorsOf(edit.newText)
            body == Len(edit.newText) - Len(raw) - 1
        IN  /\ edit.range = arguments.targetRange
            /\ \E i \in 1..Len(ColorsOf(last.before)) :
                  /\ ColorsOf(last.before)[i].range = arguments.targetRange
                  /\ ColorsOf(last.before)[i].alphaString = raw
            /\ StartsWithAt(edit.newText, 0, OKLCH)
            /\ StartsWithAt(edit.newText, body, raw \o <<")">>)
            /\ \A k \in 1..body : edit.newText[k] \notin {"/", "%"}
            /\ Len(back) = 1
            /\ back[1].range = FullRange(edit.newText)
            /\ back[1].l = entry.oklch.l
            /\ back[1].c = entry.oklch.c
            /\ back[1].h = entry.oklch.h
            /\ back[1].alphaString = raw

\* C3 witness: ReplaceColor has put rose in the place of a color written
\* with " / 50%", and the document now holds rose with " / 50%"
C3_Witness ==
    /\ last.op = "select"
    /\ last.applied
    /\ last.choice = <<Rose>>
    /\ last.color[1].originalAlphaString = <<" ", "/", " ", "5", "0", "%">>
    /\ StartsWithAt(text, 0,
           <<"o", "k", "l", "c", "h", "(", "0", ".", "6", " ", "0", ".", "2", " ",
             "1", "0", " ", "/", " ", "5", "0", "%", ")">>)

----------------------------------------------------------------------------
(* Claims about the palette and the lookup, under Spec *)

\* whether entry e lies within the default tolerance of the triple of entry f
Near(e, f) ==
    /\ Abs(e.oklch.l - f.oklch.l) < DefaultEpsilon
    /\ Abs(e.oklch.c - f.oklch.c) < DefaultEpsilon
    /\ Abs(e.oklch.h - f.oklch.h) < DefaultEpsilon

\* the name the lookup gives for the triple of entry e
Resolve(e) == findColorName(colorMap, e.oklch.l, e.oklch.c, e.oklch.h)

\* C4 as stated: for every entry of the loaded palette, the lookup of the
\* entry's own triple returns the entry's own name
C4_ResolveReflexive ==
    \A i \in 1..Len(colorMap) : Resolve(colorMap[i]) = colorMap[i].name

\* C4 as amended: for every entry of the loaded palette, the lookup of the
\* entry's own triple returns the name of the first entry of the palette
\* within the tolerance of that triple, which is the entry's own name when no
\* earlier entry is that near
C4_ResolveFirstNear ==
    \A i \in 1..Len(colorMap) :
        LET first == CHOOSE j \in 1..i :
                        /\ Near(colorMap[j], colorMap[i])
                        /\ \A k \in 1..(j - 1) : ~Near(colorMap[k], colorMap[i])
        IN  /\ Resolve(colorMap[i]) = colorMap[first].name
            /\ (first = i) => (Resolve(colorMap[i]) = colorMap[i].name)

\* C4 witness: hover has shown the name of the palette's first entry for a
\* color that is the triple of its second entry too, under another name
C4_Witness ==
    /\ last.op = "hover"
    /\ Len(colorMap) = 2
    /\ colorMap[1].name # colorMap[2].name
    /\ Near(colorMap[1], colorMap[2])
    /\ last.color # <<>>
    /\ last.color[1].l = colorMap[2].oklch.l
    /\ last.color[1].c = colorMap[2].oklch.c
    /\ last.color[1].h = colorMap[2].oklch.h
    /\ last.out = <<"*", "*">> \o colorMap[1].name \o <<"*", "*">>
    /\ Resolve(colorMap[2]) = colorMap[1].name

\* the triples the lookups are asked for: those of the palette entries that
\* the files hold and those of the colors of the document
Asked ==
    {e.oklch : e \in Entries}
      \cup {[l |-> ColorsOf(text)[i].l, c |-> ColorsOf(text)[i].c,
             h |-> ColorsOf(text)[i].h] : i \in 1..Len(ColorsOf(text))}

----------------------------------------------------------------------------
(* Claims about the quick fix and edits of the document, under SpecReplace *)

\* C11: whatever happened to the document since provideCodeActions offered
\* the quick fix, the range ReplaceColor replaces is the range of an oklch
\* expression of the document the edit is applied to, one with the alpha
\* text that was captured, and the comment it replaces with it is the one
\* that follows that expression on its line
C11_ReplacesOfferedExpression ==
    (last.op = "select" /\ last.edits # <<>>) =>
        LET t == last.before
            arguments == last.color[1]
            colorEdit == last.edits[Len(last.edits)]
        IN  \E i \in 1..Len(ColorsOf(t)) :
               LET color == ColorsOf(t)[i]
                   follows == CommentMatch(TextAfter(t, color.range.end))
               IN  /\ color.range = colorEdit.range
                   /\ color.alphaString = arguments.originalAlphaString
                   /\ Len(last.edits) = 2 =>
                         /\ follows.ok
                         /\ last.edits[1].range.start =
                               Position(color.range.end.line,
                                        color.range.end.character + Len(follows.g1))
                         /\ last.edits[1].range.end =
                               Position(color.range.end.line,
                                        color.range.end.character + Len(follows.g1)
                                          + Len(follows.g2))

====
